---- MODULE Spec2Model ----
(***************************************************************************)
(* Model of pingis (src/src/main.rs): the startup system `setup`, the      *)
(* fixed-timestep system `move_racket`, and the arena geometry of          *)
(* `WallLocation`.                                                         *)
(*                                                                         *)
(* Every coordinate of the program is an f32.  The values that occur are   *)
(* integers, except TIME_STEP = 1.0 / 60.0, which is held in fixed point   *)
(* at scale FRAC (2^29), the scale at which the f32 nearest to 1/60 is an  *)
(* integer.  Every arithmetic result is rounded as IEEE-754 binary32       *)
(* rounds it: to F32_MANT_BITS significant bits, ties to even.             *)
(***************************************************************************)
EXTENDS Integers, Sequences, FiniteSets, TLC

VARIABLES
    players,         \* Query<&Player>: the Player components, in spawn order
    rackets,         \* Query<(&Racket, &mut Transform)>, in spawn order
    walls,           \* the WallBundles spawned by setup, in spawn order
    panicked,        \* TRUE iff an assert! of WallLocation::size failed in setup
    keyboard_input,  \* Res<Input<KeyCode>>: the set of keys currently pressed
    ticks            \* number of runs of move_racket so far (FixedTimestep steps)

vars == <<players, rackets, walls, panicked, keyboard_input, ticks>>

----------------------------------------------------------------------------
(* Bounds of the model.                                                    *)

\* Ticks explored from the startup state when the keys may change freely.
MaxTicks == 4
\* Ticks explored from the startup state when the keys are held unchanged.
MaxHoldTicks == 130
\* The far states start this many ticks before the f32 grid absorbs a step.
FarBack == 2
\* Ticks explored from a far state.
FarWindow == 4

----------------------------------------------------------------------------
(* f32 arithmetic.                                                         *)

\* Significant bits of an f32 (binary32: 23 stored bits and the hidden one).
F32_MANT_BITS == 24

Abs(n) == IF n < 0 THEN -n ELSE n

\* The spacing of the f32 grid at magnitude a, for a value held as the
\* integer a: 1 while a has at most F32_MANT_BITS bits, doubling with each
\* further bit.
RECURSIVE F32Ulp(_)
F32Ulp(a) == IF a < 2^F32_MANT_BITS THEN 1 ELSE 2 * F32Ulp(a \div 2)

\* Round-to-nearest, ties-to-even, of the non-negative a onto multiples of q.
RoundHalfEven(a, q) ==
    LET lo == a \div q
        r  == a % q
    IN  IF 2 * r < q THEN lo * q
        ELSE IF 2 * r > q THEN (lo + 1) * q
        ELSE IF lo % 2 = 0 THEN lo * q ELSE (lo + 1) * q

\* The f32 nearest to the exact value n (sign-magnitude, so symmetric).
F32Round(n) ==
    LET a == Abs(n)
        v == RoundHalfEven(a, F32Ulp(a))
    IN  IF n < 0 THEN -v ELSE v

F32Add(a, b) == F32Round(a + b)
F32Sub(a, b) == F32Round(a - b)
F32Mul(a, b) == F32Round(a * b)

\* Fixed-point scale of the one non-integral f32 of the program: values in
\* [2^-6, 2^-5) have their 24 significant bits at 2^-29.
FRAC == 2^29

\* a / b for integers a, b > 0 with quotient in [2^-6, 2^-5): the f32
\* nearest to the exact quotient, at scale FRAC.
F32DivFrac(a, b) == F32Round(RoundHalfEven(a * FRAC, b) \div b)

----------------------------------------------------------------------------
(* Program constants (main.rs:41-54).                                      *)

TIME_STEP == F32DivFrac(1, 60)       \* at scale FRAC
RACKET_SPEED == 120

RACKET_THICCNESS == 40
RACKET_WALL_OFFSET == 20

WALL_THICKNESS == 30

LEFT_WALL == -450
RIGHT_WALL == 450
TOP_WALL == 250
BOTTOM_WALL == -250

\* The four keys setup binds, and Space for the keys it binds to no player.
KeyCodes == {"W", "S", "Up", "Down", "Space"}

WallLocation == {"Left", "Right", "Bottom", "Top"}

Vec2(x, y) == [x |-> x, y |-> y]
Vec3(x, y, z) == [x |-> x, y |-> y, z |-> z]

----------------------------------------------------------------------------
(* Arena geometry: impl WallLocation (main.rs:75-101).                     *)

\* Variant of position: the bounds of opposite walls exchanged.
position_mirrored(location) ==
    CASE location = "Left"   -> Vec2(RIGHT_WALL, 0)
      [] location = "Right"  -> Vec2(LEFT_WALL, 0)
      [] location = "Bottom" -> Vec2(0, TOP_WALL)
      [] location = "Top"    -> Vec2(0, BOTTOM_WALL)

position(location) ==
    CASE location = "Left"   -> Vec2(LEFT_WALL, 0)
      [] location = "Right"  -> Vec2(RIGHT_WALL, 0)
      [] location = "Bottom" -> Vec2(0, BOTTOM_WALL)
      [] location = "Top"    -> Vec2(0, TOP_WALL)

arena_height == F32Sub(TOP_WALL, BOTTOM_WALL)
arena_width == F32Sub(RIGHT_WALL, LEFT_WALL)

\* The two assert! of size: both must hold or the call panics.
size_asserts == arena_height > 0 /\ arena_width > 0

\* Variant of size: arena_width and arena_height exchanged.
size_swapped(location) ==
    IF location \in {"Left", "Right"}
    THEN Vec2(WALL_THICKNESS, F32Add(arena_width, WALL_THICKNESS))
    ELSE Vec2(F32Add(arena_height, WALL_THICKNESS), WALL_THICKNESS)

size(location) ==
    IF location \in {"Left", "Right"}
    THEN Vec2(WALL_THICKNESS, F32Add(arena_height, WALL_THICKNESS))
    ELSE Vec2(F32Add(arena_width, WALL_THICKNESS), WALL_THICKNESS)

\* WallBundle::new: translation = position.extend(0.0), scale = size.extend(1.0)
WallBundle_new(location) ==
    [ location    |-> location,
      translation |-> Vec3(position(location).x, position(location).y, 0),
      scale       |-> Vec3(size(location).x, size(location).y, 1) ]

----------------------------------------------------------------------------
(* Startup: setup, spawn_racket (main.rs:130-161, 216-241).                *)

player1 == [ player_number |-> 1, movement_keys |-> [up |-> "W", down |-> "S"] ]
player2 == [ player_number |-> 2, movement_keys |-> [up |-> "Up", down |-> "Down"] ]

\* Variant of spawn_racket: both rackets get player_number 1.
spawn_racket_same_number(is_player2) ==
    [ player_number |-> 1,
      translation |->
        IF is_player2
        THEN Vec3(F32Sub(F32Sub(RIGHT_WALL, RACKET_THICCNESS), RACKET_WALL_OFFSET), 0, 0)
        ELSE Vec3(F32Add(F32Add(LEFT_WALL, RACKET_THICCNESS), RACKET_WALL_OFFSET), 0, 0) ]

\* The Racket component and the translation of its Transform.
spawn_racket(is_player2) ==
    [ player_number |-> IF is_player2 = TRUE THEN 2 ELSE 1,
      translation |->
        IF is_player2
        THEN Vec3(F32Sub(F32Sub(RIGHT_WALL, RACKET_THICCNESS), RACKET_WALL_OFFSET), 0, 0)
        ELSE Vec3(F32Add(F32Add(LEFT_WALL, RACKET_THICCNESS), RACKET_WALL_OFFSET), 0, 0) ]

\* The entities setup leaves in the world.  A failed assert! in size aborts
\* setup at the first wall: no wall is spawned.
setup_players == << player1, player2 >>
setup_rackets == << spawn_racket(TRUE), spawn_racket(FALSE) >>
setup_walls ==
    IF size_asserts
    THEN << WallBundle_new("Left"), WallBundle_new("Right"),
            WallBundle_new("Bottom"), WallBundle_new("Top") >>
    ELSE << >>

Init ==
    /\ players = setup_players
    /\ rackets = setup_rackets
    /\ walls = setup_walls
    /\ panicked = ~size_asserts
    /\ keyboard_input = {}
    /\ ticks = 0

----------------------------------------------------------------------------
(* The fixed-timestep system: move_racket (main.rs:183-214).               *)

pressed(input, key) == key \in input

\* Variant of players_who_moved: the filter on pressed keys dropped.
all_players(input, player_query) == player_query

\* main.rs:188-194: the players with the up or the down key pressed.
players_who_moved(input, player_query) ==
    LET active(player) == \/ pressed(input, player.movement_keys.up)
                          \/ pressed(input, player.movement_keys.down)
    IN  SelectSeq(player_query, active)

\* Variant of direction: the down key tested first.
direction_down_first(input, player) ==
    IF pressed(input, player.movement_keys.down) THEN -1 ELSE 1

\* main.rs:201-205
direction(input, player) ==
    IF pressed(input, player.movement_keys.up) THEN 1 ELSE -1

\* Variant of step: RACKET_SPEED left out.
step_no_speed(dir) == F32Mul(dir, TIME_STEP)

\* direction * RACKET_SPEED * TIME_STEP, evaluated left to right; at scale FRAC.
step(dir) == F32Mul(F32Mul(dir, RACKET_SPEED), TIME_STEP)

\* Variant of new_position: the result clamped to the arena.
new_position_clamped(y, dir) ==
    LET n == F32Add(y, step(dir) \div FRAC)
    IN  IF n > TOP_WALL THEN TOP_WALL ELSE IF n < BOTTOM_WALL THEN BOTTOM_WALL ELSE n

\* Variant of new_position: TIME_STEP left out.
new_position_no_time_step(y, dir) == F32Add(y, F32Mul(dir, RACKET_SPEED))

\* main.rs:210.  step(dir) is a whole number of units (StepIsWhole below),
\* so the sum is formed in units.
new_position(y, dir) == F32Add(y, step(dir) \div FRAC)

\* Variant of matches: the filter on player_number dropped.
matches_any(racket, player) == TRUE

\* main.rs:207-209: the filter of the racket query
matches(racket, player) == racket.player_number = player.player_number

\* Variant of moved: translation.x written instead of translation.y.
moved_x(racket, dir) ==
    [racket EXCEPT !.translation.x = new_position(@, dir)]

\* main.rs:210-211: only translation.y is written
moved(racket, dir) ==
    [racket EXCEPT !.translation.y = new_position(@, dir)]

\* main.rs:200-213: the outer loop over the players who moved, each pass
\* updating the rackets the filter lets through.
RECURSIVE move_loop(_, _, _)
move_loop(input, movers, query) ==
    IF movers = << >> THEN query
    ELSE LET player == Head(movers)
             dir    == direction(input, player)
             after  == [i \in 1..Len(query) |->
                          IF matches(query[i], player)
                          THEN moved(query[i], dir)
                          ELSE query[i]]
         IN  move_loop(input, Tail(movers), after)

move_racket(input, query, player_query) ==
    LET movers == players_who_moved(input, player_query)
    IN  IF Len(movers) < 1 THEN query
        ELSE move_loop(input, movers, query)

----------------------------------------------------------------------------
(* Far states.  With a key held, a racket reaches them after FarTicks      *)
(* ticks: every even integer of magnitude at most F32_SAT is an f32, so    *)
(* each of those additions of 2.0 is exact.                                *)

\* The magnitude at which the f32 grid has spacing 4: adding 2.0 is a tie,
\* and ties go to the even neighbour, which is the value itself.
F32_SAT == 2^(F32_MANT_BITS + 1)
\* Ticks with one key held from y = 0 up to F32_SAT.
SatTicks == F32_SAT \div 2
FarTicks == SatTicks - FarBack

\* The rackets after FarTicks ticks in each of which racket i moved by d[i].
far_rackets(d) ==
    [i \in 1..Len(setup_rackets) |->
        [setup_rackets[i] EXCEPT !.translation.y = d[i] * 2 * FarTicks]]

\* The direction in which player_number n moves while `input` is held.
held_dir(input, n) ==
    LET ps == SelectSeq(setup_players, LAMBDA p : p.player_number = n)
        active == players_who_moved(input, ps)
    IN  IF Len(active) < 1 THEN 0 ELSE direction(input, Head(active))

InitFar ==
    /\ players = setup_players
    /\ \E d \in [1..Len(setup_rackets) -> {-1, 1}] : rackets = far_rackets(d)
    /\ walls = setup_walls
    /\ panicked = ~size_asserts
    /\ keyboard_input \in SUBSET KeyCodes
    /\ ticks = FarTicks

\* The startup state with some keys down, and the far states those keys lead to.
InitHold ==
    /\ players = setup_players
    /\ walls = setup_walls
    /\ panicked = ~size_asserts
    /\ keyboard_input \in SUBSET KeyCodes
    /\ \/ ticks = 0 /\ rackets = setup_rackets
       \/ /\ ticks = FarTicks
          /\ rackets = far_rackets(
                [i \in 1..Len(setup_rackets) |->
                    held_dir(keyboard_input, setup_rackets[i].player_number)])

----------------------------------------------------------------------------
(* Actions.                                                                *)

\* The input system: any set of keys may be down at the next tick.
KeyInput ==
    /\ \E keys \in SUBSET KeyCodes :
          /\ keys # keyboard_input
          /\ keyboard_input' = keys
    /\ UNCHANGED <<players, rackets, walls, panicked, ticks>>

\* One run of move_racket.
MoveRacketStep ==
    /\ rackets' = move_racket(keyboard_input, rackets, players)
    /\ ticks' = ticks + 1
    /\ UNCHANGED <<players, walls, panicked, keyboard_input>>

InBudget(limit) ==
    \/ ticks < limit
    \/ ticks >= FarTicks /\ ticks < FarTicks + FarWindow

Tick == ~panicked /\ InBudget(MaxTicks) /\ MoveRacketStep

\* A tick with the keys held as they were at the tick before.
HoldTick == ~panicked /\ InBudget(MaxHoldTicks) /\ MoveRacketStep

Next == KeyInput \/ Tick

\* From startup.
Spec == Init /\ [][Next]_vars

\* From startup and from the far states.
SpecFar == (Init \/ InitFar) /\ [][Next]_vars

\* Keys held unchanged from tick to tick.
SpecHold == InitHold /\ [][HoldTick]_vars

----------------------------------------------------------------------------
(* Vocabulary of the properties.                                           *)

PlayerNumbers == {1, 2}

PlayersOf(n) == {i \in DOMAIN players : players[i].player_number = n}
RacketsOf(n) == {i \in DOMAIN rackets : rackets[i].player_number = n}

\* Player n's up (down) control is down in the input the next tick reads.
UpHeld(n) == \E i \in PlayersOf(n) : players[i].movement_keys.up \in keyboard_input
DownHeld(n) == \E i \in PlayersOf(n) : players[i].movement_keys.down \in keyboard_input

\* The step is one run of move_racket.
TickStep == ticks' = ticks + 1

\* The y of the racket of player n (of all of them, were there several).
YOf(n) == {rackets[i].translation.y : i \in RacketsOf(n)}

\* direction * RACKET_SPEED * TIME_STEP is exactly 2.0 (-2.0) in f32.
StepIsWhole == step(1) = 2 * FRAC /\ step(-1) = -2 * FRAC

\* From startup, not from a far state.
NearStart == ticks <= MaxHoldTicks

----------------------------------------------------------------------------
(* C1: in every tick, a racket whose player holds neither control keeps    *)
(* its translation, whatever the other player holds.                       *)
C1_NoInputNoMove ==
    [][ \A n \in PlayerNumbers :
          (TickStep /\ ~UpHeld(n) /\ ~DownHeld(n))
            => \A i \in RacketsOf(n) :
                  rackets'[i].translation = rackets[i].translation ]_vars

\* One tick ran with only player 2's up key down: racket 2 moved, racket 1 did not.
C1_Witness ==
    /\ ticks = 1
    /\ keyboard_input = {"Up"}
    /\ YOf(1) = {0}
    /\ YOf(2) = {2}

(* C2 as stated: with exactly one control held, y changes by +2 (up) or    *)
(* -2 (down), whatever y was.                                              *)
C2_Original ==
    [][ \A n \in PlayerNumbers : \A i \in RacketsOf(n) :
          /\ (TickStep /\ UpHeld(n) /\ ~DownHeld(n))
                => rackets'[i].translation.y = rackets[i].translation.y + 2
          /\ (TickStep /\ DownHeld(n) /\ ~UpHeld(n))
                => rackets'[i].translation.y = rackets[i].translation.y - 2 ]_vars

(* C2, amended: the per-tick step is exactly 2.0, and with exactly one     *)
(* control held y changes by +2 while y < 2^25 (up) and by -2 while        *)
(* y > -2^25 (down).                                                       *)
C2_StepBelowSaturation ==
    [][ /\ StepIsWhole
        /\ \A n \in PlayerNumbers : \A i \in RacketsOf(n) :
             /\ (TickStep /\ UpHeld(n) /\ ~DownHeld(n)
                    /\ rackets[i].translation.y < F32_SAT)
                   => rackets'[i].translation.y = rackets[i].translation.y + 2
             /\ (TickStep /\ DownHeld(n) /\ ~UpHeld(n)
                    /\ rackets[i].translation.y > -F32_SAT)
                   => rackets'[i].translation.y = rackets[i].translation.y - 2 ]_vars

\* The last exact step upwards has been taken: a racket stands at 2^25.
C2_Witness ==
    /\ ticks = SatTicks
    /\ \E n \in PlayerNumbers : YOf(n) = {F32_SAT}

(* C3 as stated: with both controls held, y increases by 2.               *)
C3_Original ==
    [][ \A n \in PlayerNumbers : \A i \in RacketsOf(n) :
          (TickStep /\ UpHeld(n) /\ DownHeld(n))
             => rackets'[i].translation.y = rackets[i].translation.y + 2 ]_vars

(* C3, amended: with both controls held, up takes precedence: y increases  *)
(* by 2 while y < 2^25, and never decreases.                               *)
C3_UpWinsBelowSaturation ==
    [][ \A n \in PlayerNumbers : \A i \in RacketsOf(n) :
          (TickStep /\ UpHeld(n) /\ DownHeld(n))
             => /\ rackets'[i].translation.y >= rackets[i].translation.y
                /\ rackets[i].translation.y < F32_SAT
                     => rackets'[i].translation.y = rackets[i].translation.y + 2 ]_vars

\* One tick ran with W and S both down: racket 1 went up.
C3_Witness ==
    /\ ticks = 1
    /\ keyboard_input = {"W", "S"}
    /\ YOf(1) = {2}

\* What a tick does to a racket, given only that racket and whether its own
\* player's up and down controls are held.
OwnMove(racket, up, down) ==
    IF up THEN moved(racket, 1)
    ELSE IF down THEN moved(racket, -1)
    ELSE racket

(* C4: the rackets move independently: after a tick each racket is a       *)
(* function of its own previous state and of the controls of the player    *)
(* with its player_number; the other player's controls have no effect.     *)
C4_Independent ==
    [][ TickStep =>
          \A n \in PlayerNumbers : \A i \in RacketsOf(n) :
             rackets'[i] = OwnMove(rackets[i], UpHeld(n), DownHeld(n)) ]_vars

\* One tick ran with player 1 holding up and player 2 holding down.
C4_Witness ==
    /\ ticks = 1
    /\ keyboard_input = {"W", "Down"}
    /\ YOf(1) = {2}
    /\ YOf(2) = {-2}

(* C5 as stated: after n consecutive ticks with player 1's up control      *)
(* held, racket 1's y is 2 * n.                                            *)
C5_Original ==
    UpHeld(1) => YOf(1) = {2 * ticks}

(* C5, amended: after n <= 2^24 consecutive ticks from startup with player *)
(* 1's up control held, racket 1's y is 2 * n; after 30 ticks it is 60.    *)
C5_LinearUpToSaturation ==
    (UpHeld(1) /\ ticks <= SatTicks) => YOf(1) = {2 * ticks}

\* Thirty ticks from startup with W held.
C5_Witness ==
    /\ ticks = 30
    /\ UpHeld(1)
    /\ YOf(1) = {60}

(* C6: each racket keeps the x that spawn_racket gave it, -390 for player  *)
(* 1 and 390 for player 2 (and z = 0): ticks change y only.                *)
C6_XFixed ==
    /\ \A i \in RacketsOf(1) : rackets[i].translation.x = -390
    /\ \A i \in RacketsOf(2) : rackets[i].translation.x = 390
    /\ \A i \in DOMAIN rackets :
          /\ rackets[i].player_number \in PlayerNumbers
          /\ rackets[i].translation.z = 0

\* Both rackets have been moved by ticks.
C6_Witness ==
    /\ ticks = MaxTicks
    /\ YOf(1) = {2 * MaxTicks}
    /\ YOf(2) = {-2 * MaxTicks}

(* C7: for each player_number in {1, 2} there is exactly one Player and    *)
(* exactly one Racket, and no record carries another number.               *)
C7_OnePerNumber ==
    /\ \A n \in PlayerNumbers :
          /\ Cardinality(PlayersOf(n)) = 1
          /\ Cardinality(RacketsOf(n)) = 1
    /\ \A i \in DOMAIN players : players[i].player_number \in PlayerNumbers
    /\ \A i \in DOMAIN rackets : rackets[i].player_number \in PlayerNumbers
    /\ Len(players) = 2
    /\ Len(rackets) = 2

\* Ticks have run and moved a racket, with the records as setup made them.
C7_Witness ==
    /\ ticks > 0
    /\ \E n \in PlayerNumbers : YOf(n) # {0}
    /\ Cardinality(RacketsOf(1)) = 1
    /\ Cardinality(RacketsOf(2)) = 1

\* The scale (size) and translation (position) of the wall at `location`.
WallsAt(location) == {i \in DOMAIN walls : walls[i].location = location}

(* C8: the asserts of size hold, every wall has positive width and height, *)
(* Left and Right are (30, 530), Top and Bottom are (930, 30).             *)
C8_WallSizes ==
    /\ ~panicked
    /\ \A w \in WallLocation :
          /\ WallsAt(w) # {}
          /\ \A i \in WallsAt(w) :
                /\ walls[i].scale.x > 0
                /\ walls[i].scale.y > 0
                /\ w \in {"Left", "Right"}
                     => walls[i].scale.x = 30 /\ walls[i].scale.y = 530
                /\ w \in {"Bottom", "Top"}
                     => walls[i].scale.x = 930 /\ walls[i].scale.y = 30

\* setup has spawned the four walls with their sizes.
C8_Witness ==
    /\ Len(walls) = 4
    /\ \E i \in WallsAt("Left") : walls[i].scale.y = 530
    /\ \E i \in WallsAt("Top") : walls[i].scale.x = 930

(* C9: Left is at (-450, 0), Right at (450, 0), Bottom at (0, -250), Top   *)
(* at (0, 250).                                                            *)
C9_WallPositions ==
    \A w \in WallLocation :
       /\ WallsAt(w) # {}
       /\ \A i \in WallsAt(w) :
             /\ w = "Left"   => walls[i].translation.x = -450 /\ walls[i].translation.y = 0
             /\ w = "Right"  => walls[i].translation.x = 450 /\ walls[i].translation.y = 0
             /\ w = "Bottom" => walls[i].translation.x = 0 /\ walls[i].translation.y = -250
             /\ w = "Top"    => walls[i].translation.x = 0 /\ walls[i].translation.y = 250

\* setup has spawned the four walls at their positions.
C9_Witness ==
    /\ Len(walls) = 4
    /\ \E i \in WallsAt("Left") : walls[i].translation.x = LEFT_WALL
    /\ \E i \in WallsAt("Top") : walls[i].translation.y = TOP_WALL

(* C10 as stated: with a control held, y passes every bound, so each held  *)
(* tick moves the racket further in the held direction.                    *)
C10_Original ==
    [][ \A n \in PlayerNumbers : \A i \in RacketsOf(n) :
          /\ UpHeld(n) => rackets'[i].translation.y > rackets[i].translation.y
          /\ (DownHeld(n) /\ ~UpHeld(n))
                => rackets'[i].translation.y < rackets[i].translation.y ]_vars

(* C10, amended: y is not clamped to the arena: a held tick moves the      *)
(* racket further in the held direction whatever side of TOP_WALL or       *)
(* BOTTOM_WALL it is on, as long as |y| < 2^25; so y passes TOP_WALL       *)
(* (BOTTOM_WALL) and every bound below 2^25.                               *)
C10_NotClamped ==
    [][ \A n \in PlayerNumbers : \A i \in RacketsOf(n) :
          /\ (UpHeld(n) /\ rackets[i].translation.y < F32_SAT)
                => rackets'[i].translation.y > rackets[i].translation.y
          /\ (DownHeld(n) /\ ~UpHeld(n) /\ rackets[i].translation.y > -F32_SAT)
                => rackets'[i].translation.y < rackets[i].translation.y ]_vars

\* From startup, with W held, racket 1 has passed the top wall.
C10_Witness ==
    /\ NearStart
    /\ UpHeld(1)
    /\ \E y \in YOf(1) : y > TOP_WALL

====
